---- MODULE Spec2Model ----
(***************************************************************************)
(* A model of the octree bitmap of src/src/lib.rs (crate `october`).       *)
(*                                                                         *)
(* OctreeBitmap keeps a table `branches` keyed by BranchIndex (aligned     *)
(* base coordinate, height) and a fixed `height`.  Every table entry is a  *)
(* Branch of 2x2x2 RawNode markers (False / True / Branch).  The root,     *)
(* keyed (0,0,0) at `height`, is inserted by new and clear.                *)
(*                                                                         *)
(* u32 values that can come near 2^32 (the requested width, the result of  *)
(* width()) are kept as two 16-bit halves [hi, lo] so that the 32-bit      *)
(* arithmetic of new and width is computed exactly.  Index coordinates and *)
(* heights used by the tree operations stay small and are plain naturals.  *)
(***************************************************************************)
EXTENDS Integers, Sequences, FiniteSets, TLC

\* ------------------------------------------------------------------ bounds
\* new(w) is called with w in 1..MaxWidth in the tree specification.
MaxWidth == 3
\* set/get indexes are the unit cube {0,1}^3 plus the diagonal points
\* (k,k,k) for k in 2..MaxDiag.
MaxDiag == 2
\* the width specification calls new(w) with w in 0..MaxSmall and with the
\* values around every power of two up to u32::MAX.
MaxSmall == 8

\* ------------------------------------------------------- u32 as two halves
BITS == 32
Half == 2 ^ 16

U32(n) == [hi |-> n \div Half, lo |-> n % Half]
U32Max == [hi |-> Half - 1, lo |-> Half - 1]
Leq(a, b) == a.hi < b.hi \/ (a.hi = b.hi /\ a.lo <= b.lo)
Dec(a) == IF a.lo > 0 THEN [hi |-> a.hi, lo |-> a.lo - 1]
          ELSE [hi |-> a.hi - 1, lo |-> Half - 1]
Inc(a) == IF a.lo < Half - 1 THEN [hi |-> a.hi, lo |-> a.lo + 1]
          ELSE [hi |-> a.hi + 1, lo |-> 0]
\* 2^k as a u32, for k in 0..31
Pow2U32(k) == IF k < 16 THEN [hi |-> 0, lo |-> 2 ^ k]
              ELSE [hi |-> 2 ^ (k - 16), lo |-> 0]

RECURSIVE BitLen(_)
BitLen(n) == IF n = 0 THEN 0 ELSE 1 + BitLen(n \div 2)

\* u32::leading_zeros
LeadingZeros(a) == IF a.hi > 0 THEN 16 - BitLen(a.hi) ELSE BITS - BitLen(a.lo)

\* Overflow checks are on in a "debug" build and off in a "release" build; the
\* build only decides how new and width end when their arithmetic overflows.
Builds == {"debug", "release"}

\* u32::next_power_of_two: (u32::MAX >> leading_zeros(w - 1)) + 1 for w > 1,
\* 1 otherwise.  The final + 1 overflows when w > 2^31: a panic in a build
\* with overflow checks, the wrapped value 0 without.
NextPowerOfTwo(w, b) ==
    IF Leq(w, U32(1)) THEN [out |-> "ok", val |-> U32(1)]
    ELSE LET z == LeadingZeros(Dec(w))
         IN  IF z = 0
             THEN IF b = "debug" THEN [out |-> "panic", val |-> U32(0)]
                  ELSE [out |-> "ok", val |-> U32(0)]
             ELSE [out |-> "ok", val |-> Pow2U32(BITS - z)]

\* let height = u32::BITS - width.next_power_of_two().leading_zeros();
NewHeight(w, b) ==
    LET p == NextPowerOfTwo(w, b)
    IN  IF p.out = "panic" THEN [out |-> "panic", height |-> 0]
        ELSE [out |-> "ok", height |-> BITS - LeadingZeros(p.val)]

\* 1 << self.height: the shift overflows when height = 32: a panic in a
\* build with overflow checks, a shift by height % 32 without.
Width(h, b) ==
    IF h < BITS THEN [out |-> "ok", val |-> Pow2U32(h)]
    ELSE IF b = "debug" THEN [out |-> "panic", val |-> U32(0)]
    ELSE [out |-> "ok", val |-> Pow2U32(h % BITS)]

\* ------------------------------------------------------------------ Index
Index(x, y, z) == [x |-> x, y |-> y, z |-> z]
Origin == Index(0, 0, 0)

\* Index::bit: bit `h` of each coordinate
Bit(idx, h) == [x |-> (idx.x \div (2 ^ h)) % 2,
                y |-> (idx.y \div (2 ^ h)) % 2,
                z |-> (idx.z \div (2 ^ h)) % 2]

\* branch_at with the mask one bit too wide: !((1 << (h + 1)) - 1)
BranchAtMut(idx, h) ==
    [base |-> [x |-> (idx.x \div (2 ^ (h + 1))) * (2 ^ (h + 1)),
               y |-> (idx.y \div (2 ^ (h + 1))) * (2 ^ (h + 1)),
               z |-> (idx.z \div (2 ^ (h + 1))) * (2 ^ (h + 1))],
     height |-> h]

\* Index::branch_at: the coordinates with their low `h` bits cleared
\* (mask = !((1 << h) - 1)), paired with h.
BranchAt(idx, h) ==
    [base |-> [x |-> (idx.x \div (2 ^ h)) * (2 ^ h),
               y |-> (idx.y \div (2 ^ h)) * (2 ^ h),
               z |-> (idx.z \div (2 ^ h)) * (2 ^ h)],
     height |-> h]

\* BranchIndex::root
Root(h) == [base |-> Origin, height |-> h]

\* ---------------------------------------------------------------- RawNode
RawNode == {"False", "True", "Branch"}
\* From<bool> with both arms giving True
FromBoolMut(v) == "True"
FromBool(v) == IF v THEN "True" ELSE "False"

\* Branch { children: [[[s; 2]; 2]; 2] }
Uniform(s) == [children |-> [z \in 0..1 |-> [y \in 0..1 |-> [x \in 0..1 |-> s]]]]

Child(br, bit) == br.children[bit.z][bit.y][bit.x]
\* the child written at [x][y][z] instead of [z][y][x]
SetChildMut(br, bit, s) == [br EXCEPT !.children[bit.x][bit.y][bit.z] = s]
SetChild(br, bit, s) == [br EXCEPT !.children[bit.z][bit.y][bit.x] = s]

\* HashMap::insert / HashMap::remove on the branch table
Insert(m, k, v) == [kk \in (DOMAIN m) \cup {k} |-> IF kk = k THEN v ELSE m[kk]]
\* remove that leaves the table as it is
RemoveNone(m, k) == m
\* remove that drops every branch stored at the height of k
RemoveLevel(m, k) == [kk \in {j \in DOMAIN m : j.height # k.height} |-> m[kk]]
Remove(m, k) == [kk \in (DOMAIN m) \ {k} |-> m[kk]]

\* the table built by new and by clear: the root alone, all children False
RootOnly(h) == Insert(<<>>, Root(h), Uniform("False"))

\* ------------------------------------------------------------------- get
\* One pass of the loop of get at current_height = ch (ch >= 1).  The table
\* index panics when the key is absent.
RECURSIVE GetLoop(_, _, _)
GetLoop(b, idx, ch) ==
    LET key == BranchAt(idx, ch)
    IN  IF key \notin DOMAIN b
        THEN [out |-> "panic", why |-> "lookup", ret |-> "none"]
        ELSE LET c == Child(b[key], Bit(idx, ch - 1))
             IN  IF c = "False" THEN [out |-> "ok", why |-> "", ret |-> "false"]
                 ELSE IF c = "True" THEN [out |-> "ok", why |-> "", ret |-> "true"]
                 ELSE IF ch - 1 = 0
                      THEN [out |-> "panic", why |-> "unreachable", ret |-> "none"]
                      ELSE GetLoop(b, idx, ch - 1)

Get(b, h, idx) == GetLoop(b, idx, h)

\* -------------------------------------------------------------- compress
\* compress that replaces one uniform branch and stops, without going up
CompressLoopMut(b, idx, state, ch, h) ==
    IF ch >= h THEN [out |-> "ok", why |-> "", branches |-> b]
    ELSE LET key == BranchAt(idx, ch)
         IN  IF key \notin DOMAIN b
             THEN [out |-> "panic", why |-> "lookup", branches |-> b]
             ELSE IF b[key] # Uniform(state)
             THEN [out |-> "ok", why |-> "", branches |-> b]
             ELSE LET b1 == Remove(b, key)
                      pkey == BranchAt(idx, ch + 1)
                  IN  IF pkey \notin DOMAIN b1
                      THEN [out |-> "panic", why |-> "lookup", branches |-> b1]
                      ELSE [out |-> "ok", why |-> "",
                            branches |-> [b1 EXCEPT ![pkey] =
                                             SetChild(@, Bit(idx, ch), state)]]

\* compress written as for current_height in 1..=self.height: the root is
\* examined as well, and removed when its children are all equal
RECURSIVE CompressLoopIncl(_, _, _, _, _)
CompressLoopIncl(b, idx, state, ch, h) ==
    IF ch > h THEN [out |-> "ok", why |-> "", branches |-> b]
    ELSE LET key == BranchAt(idx, ch)
         IN  IF key \notin DOMAIN b
             THEN [out |-> "panic", why |-> "lookup", branches |-> b]
             ELSE IF b[key] # Uniform(state)
             THEN [out |-> "ok", why |-> "", branches |-> b]
             ELSE LET b1 == Remove(b, key)
                      pkey == BranchAt(idx, ch + 1)
                  IN  IF pkey \notin DOMAIN b1
                      THEN [out |-> "panic", why |-> "lookup", branches |-> b1]
                      ELSE CompressLoopIncl(
                               [b1 EXCEPT ![pkey] = SetChild(@, Bit(idx, ch), state)],
                               idx, state, ch + 1, h)

\* compress that writes the parent's slot chosen by idx.bit(current_height - 1)
\* instead of idx.bit(current_height)
RECURSIVE CompressLoopBit(_, _, _, _, _)
CompressLoopBit(b, idx, state, ch, h) ==
    IF ch >= h THEN [out |-> "ok", why |-> "", branches |-> b]
    ELSE LET key == BranchAt(idx, ch)
         IN  IF key \notin DOMAIN b
             THEN [out |-> "panic", why |-> "lookup", branches |-> b]
             ELSE IF b[key] # Uniform(state)
             THEN [out |-> "ok", why |-> "", branches |-> b]
             ELSE LET b1 == Remove(b, key)
                      pkey == BranchAt(idx, ch + 1)
                  IN  IF pkey \notin DOMAIN b1
                      THEN [out |-> "panic", why |-> "lookup", branches |-> b1]
                      ELSE CompressLoopBit(
                               [b1 EXCEPT ![pkey] = SetChild(@, Bit(idx, ch - 1), state)],
                               idx, state, ch + 1, h)

\* for current_height in ch..height-1
RECURSIVE CompressLoop(_, _, _, _, _)
CompressLoop(b, idx, state, ch, h) ==
    IF ch >= h THEN [out |-> "ok", why |-> "", branches |-> b]
    ELSE LET key == BranchAt(idx, ch)
         IN  IF key \notin DOMAIN b
             THEN [out |-> "panic", why |-> "lookup", branches |-> b]
             ELSE IF b[key] # Uniform(state)
             THEN [out |-> "ok", why |-> "", branches |-> b]
             ELSE LET b1 == Remove(b, key)
                      pkey == BranchAt(idx, ch + 1)
                  IN  IF pkey \notin DOMAIN b1
                      THEN [out |-> "panic", why |-> "lookup", branches |-> b1]
                      ELSE CompressLoop(
                               [b1 EXCEPT ![pkey] = SetChild(@, Bit(idx, ch), state)],
                               idx, state, ch + 1, h)

\* set without the compression pass
CompressMut(b, h, idx, state) == [out |-> "ok", why |-> "", branches |-> b]

Compress(b, h, idx, state) == CompressLoop(b, idx, state, 1, h)

\* ------------------------------------------------------------------- set
\* set that returns right after expanding a terminal instead of looping on
RECURSIVE SetLoopMut(_, _, _, _, _)
SetLoopMut(b, idx, desired, ch, h) ==
    LET key == BranchAt(idx, ch)
    IN  IF key \notin DOMAIN b
        THEN [out |-> "panic", why |-> "lookup", branches |-> b]
        ELSE LET bit == Bit(idx, ch - 1)
                 other == Child(b[key], bit)
             IN  IF other = "Branch"
                 THEN IF ch - 1 = 0
                      THEN [out |-> "panic", why |-> "unreachable", branches |-> b]
                      ELSE SetLoopMut(b, idx, desired, ch - 1, h)
                 ELSE IF desired = other
                 THEN [out |-> "ok", why |-> "", branches |-> b]
                 ELSE IF ch = 1
                 THEN Compress([b EXCEPT ![key] = SetChild(@, bit, desired)],
                               h, idx, desired)
                 ELSE [out |-> "ok", why |-> "",
                       branches |-> Insert([b EXCEPT ![key] = SetChild(@, bit, "Branch")],
                                           BranchAt(idx, ch - 1), Uniform(other))]

\* set that writes the value into the first terminal slot it meets, whatever
\* its height, instead of expanding it
RECURSIVE SetLoopNoSplit(_, _, _, _, _)
SetLoopNoSplit(b, idx, desired, ch, h) ==
    LET key == BranchAt(idx, ch)
    IN  IF key \notin DOMAIN b
        THEN [out |-> "panic", why |-> "lookup", branches |-> b]
        ELSE LET bit == Bit(idx, ch - 1)
                 other == Child(b[key], bit)
             IN  IF other = "Branch"
                 THEN IF ch - 1 = 0
                      THEN [out |-> "panic", why |-> "unreachable", branches |-> b]
                      ELSE SetLoopNoSplit(b, idx, desired, ch - 1, h)
                 ELSE IF desired = other
                 THEN [out |-> "ok", why |-> "", branches |-> b]
                 ELSE Compress([b EXCEPT ![key] = SetChild(@, bit, desired)],
                               h, idx, desired)

\* set that tests current_height == 0 before writing the leaf, so that it
\* expands a terminal at height 1 as well
RECURSIVE SetLoopDeep(_, _, _, _, _)
SetLoopDeep(b, idx, desired, ch, h) ==
    LET key == BranchAt(idx, ch)
    IN  IF key \notin DOMAIN b
        THEN [out |-> "panic", why |-> "lookup", branches |-> b]
        ELSE LET bit == Bit(idx, ch - 1)
                 other == Child(b[key], bit)
             IN  IF other = "Branch"
                 THEN IF ch - 1 = 0
                      THEN [out |-> "panic", why |-> "unreachable", branches |-> b]
                      ELSE SetLoopDeep(b, idx, desired, ch - 1, h)
                 ELSE IF desired = other
                 THEN [out |-> "ok", why |-> "", branches |-> b]
                 ELSE IF ch = 0
                 THEN Compress([b EXCEPT ![key] = SetChild(@, bit, desired)],
                               h, idx, desired)
                 ELSE SetLoopDeep(Insert([b EXCEPT ![key] = SetChild(@, bit, "Branch")],
                                         BranchAt(idx, ch - 1), Uniform(other)),
                                  idx, desired, ch, h)

\* One pass of the loop of set at current_height = ch (ch >= 1).  After an
\* expansion the loop runs again at the same height and then descends.
RECURSIVE SetLoop(_, _, _, _, _)
SetLoop(b, idx, desired, ch, h) ==
    LET key == BranchAt(idx, ch)
    IN  IF key \notin DOMAIN b
        THEN [out |-> "panic", why |-> "lookup", branches |-> b]
        ELSE LET bit == Bit(idx, ch - 1)
                 other == Child(b[key], bit)
             IN  IF other = "Branch"
                 THEN IF ch - 1 = 0
                      THEN [out |-> "panic", why |-> "unreachable", branches |-> b]
                      ELSE SetLoop(b, idx, desired, ch - 1, h)
                 ELSE IF desired = other
                 THEN [out |-> "ok", why |-> "", branches |-> b]
                 ELSE IF ch = 1
                 THEN Compress([b EXCEPT ![key] = SetChild(@, bit, desired)],
                               h, idx, desired)
                 ELSE SetLoop(Insert([b EXCEPT ![key] = SetChild(@, bit, "Branch")],
                                     BranchAt(idx, ch - 1), Uniform(other)),
                              idx, desired, ch, h)

Set(b, h, idx, value) == SetLoop(b, idx, FromBool(value), h, h)

\* The loop of set up to the point where it calls compress: the descent, the
\* expansions and the write of the leaf.  wrote tells whether the leaf was
\* written, which is when set goes on to compress.
RECURSIVE Descend(_, _, _, _)
Descend(b, idx, desired, ch) ==
    LET key == BranchAt(idx, ch)
    IN  IF key \notin DOMAIN b
        THEN [out |-> "panic", why |-> "lookup", branches |-> b, wrote |-> FALSE]
        ELSE LET bit == Bit(idx, ch - 1)
                 other == Child(b[key], bit)
             IN  IF other = "Branch"
                 THEN IF ch - 1 = 0
                      THEN [out |-> "panic", why |-> "unreachable", branches |-> b,
                            wrote |-> FALSE]
                      ELSE Descend(b, idx, desired, ch - 1)
                 ELSE IF desired = other
                 THEN [out |-> "ok", why |-> "", branches |-> b, wrote |-> FALSE]
                 ELSE IF ch = 1
                 THEN [out |-> "ok", why |-> "",
                       branches |-> [b EXCEPT ![key] = SetChild(@, bit, desired)],
                       wrote |-> TRUE]
                 ELSE Descend(Insert([b EXCEPT ![key] = SetChild(@, bit, "Branch")],
                                     BranchAt(idx, ch - 1), Uniform(other)),
                              idx, desired, ch)

\* ------------------------------------------------------------ loop passes
\* The loops of get, compress and set once more, counting their passes: n is
\* the number of times the body of the loop is entered, r what the call gives.
RECURSIVE GetSteps(_, _, _)
GetSteps(b, idx, ch) ==
    LET key == BranchAt(idx, ch)
    IN  IF key \notin DOMAIN b
        THEN [n |-> 1, r |-> [out |-> "panic", why |-> "lookup", ret |-> "none"]]
        ELSE LET c == Child(b[key], Bit(idx, ch - 1))
             IN  IF c = "False"
                 THEN [n |-> 1, r |-> [out |-> "ok", why |-> "", ret |-> "false"]]
                 ELSE IF c = "True"
                 THEN [n |-> 1, r |-> [out |-> "ok", why |-> "", ret |-> "true"]]
                 ELSE IF ch - 1 = 0
                 THEN [n |-> 1,
                       r |-> [out |-> "panic", why |-> "unreachable", ret |-> "none"]]
                 ELSE LET s == GetSteps(b, idx, ch - 1)
                      IN  [n |-> s.n + 1, r |-> s.r]

RECURSIVE CompressSteps(_, _, _, _, _)
CompressSteps(b, idx, state, ch, h) ==
    IF ch >= h THEN [n |-> 0, r |-> [out |-> "ok", why |-> "", branches |-> b]]
    ELSE LET key == BranchAt(idx, ch)
         IN  IF key \notin DOMAIN b
             THEN [n |-> 1, r |-> [out |-> "panic", why |-> "lookup", branches |-> b]]
             ELSE IF b[key] # Uniform(state)
             THEN [n |-> 1, r |-> [out |-> "ok", why |-> "", branches |-> b]]
             ELSE LET b1 == Remove(b, key)
                      pkey == BranchAt(idx, ch + 1)
                  IN  IF pkey \notin DOMAIN b1
                      THEN [n |-> 1,
                            r |-> [out |-> "panic", why |-> "lookup", branches |-> b1]]
                      ELSE LET s == CompressSteps(
                                        [b1 EXCEPT ![pkey] =
                                            SetChild(@, Bit(idx, ch), state)],
                                        idx, state, ch + 1, h)
                           IN  [n |-> s.n + 1, r |-> s.r]

\* set that goes back to the root after each expansion
\* (current_height = self.height) instead of staying at its height
RECURSIVE SetStepsRestart(_, _, _, _, _)
SetStepsRestart(b, idx, desired, ch, h) ==
    LET key == BranchAt(idx, ch)
    IN  IF key \notin DOMAIN b
        THEN [n |-> 1, c |-> 0,
              r |-> [out |-> "panic", why |-> "lookup", branches |-> b]]
        ELSE LET bit == Bit(idx, ch - 1)
                 other == Child(b[key], bit)
             IN  IF other = "Branch"
                 THEN IF ch - 1 = 0
                      THEN [n |-> 1, c |-> 0,
                            r |-> [out |-> "panic", why |-> "unreachable",
                                   branches |-> b]]
                      ELSE LET s == SetStepsRestart(b, idx, desired, ch - 1, h)
                           IN  [n |-> s.n + 1, c |-> s.c, r |-> s.r]
                 ELSE IF desired = other
                 THEN [n |-> 1, c |-> 0, r |-> [out |-> "ok", why |-> "", branches |-> b]]
                 ELSE IF ch = 1
                 THEN LET s == CompressSteps([b EXCEPT ![key] = SetChild(@, bit, desired)],
                                             idx, desired, 1, h)
                      IN  [n |-> 1, c |-> s.n, r |-> s.r]
                 ELSE LET s == SetStepsRestart(
                                   Insert([b EXCEPT ![key] = SetChild(@, bit, "Branch")],
                                          BranchAt(idx, ch - 1), Uniform(other)),
                                   idx, desired, h, h)
                      IN  [n |-> s.n + 1, c |-> s.c, r |-> s.r]

\* n: the passes of the loop of set; c: the passes of the loop of compress
RECURSIVE SetSteps(_, _, _, _, _)
SetSteps(b, idx, desired, ch, h) ==
    LET key == BranchAt(idx, ch)
    IN  IF key \notin DOMAIN b
        THEN [n |-> 1, c |-> 0,
              r |-> [out |-> "panic", why |-> "lookup", branches |-> b]]
        ELSE LET bit == Bit(idx, ch - 1)
                 other == Child(b[key], bit)
             IN  IF other = "Branch"
                 THEN IF ch - 1 = 0
                      THEN [n |-> 1, c |-> 0,
                            r |-> [out |-> "panic", why |-> "unreachable",
                                   branches |-> b]]
                      ELSE LET s == SetSteps(b, idx, desired, ch - 1, h)
                           IN  [n |-> s.n + 1, c |-> s.c, r |-> s.r]
                 ELSE IF desired = other
                 THEN [n |-> 1, c |-> 0, r |-> [out |-> "ok", why |-> "", branches |-> b]]
                 ELSE IF ch = 1
                 THEN LET s == CompressSteps([b EXCEPT ![key] = SetChild(@, bit, desired)],
                                             idx, desired, 1, h)
                      IN  [n |-> 1, c |-> s.n, r |-> s.r]
                 ELSE LET s == SetSteps(
                                   Insert([b EXCEPT ![key] = SetChild(@, bit, "Branch")],
                                          BranchAt(idx, ch - 1), Uniform(other)),
                                   idx, desired, ch, h)
                      IN  [n |-> s.n + 1, c |-> s.c, r |-> s.r]

\* ------------------------------------------------------------------ state
VARIABLES
    req,        \* the width passed to new
    height,     \* OctreeBitmap.height
    branches,   \* OctreeBitmap.branches
    last        \* the last call made and how it ended

vars == <<req, height, branches, last>>

\* op, val: the call and the value handed to set; out: "ok" or "panic", and
\* why it panicked; ret: the value returned by get (set and clear return
\* nothing, "unit"); wret: the value returned by width; changed: whether the
\* call left the table different from what it was.
Call(op, val, out, why, ret, wret, changed) ==
    [op |-> op, val |-> val, out |-> out, why |-> why,
     ret |-> ret, wret |-> wret, changed |-> changed]

\* the indexes handed to get and set
Cube == {Index(x, y, z) : x \in 0..1, y \in 0..1, z \in 0..1}
Diag == {Index(k, k, k) : k \in 2..MaxDiag}
\* two indexes with a single coordinate at or past 1 << h
Beyond(h) == {Index(2 ^ h, 0, 0), Index(0, 0, 2 ^ h + 1)}
Indexes(h) == Cube \cup Diag \cup Beyond(h)

\* the state right after OctreeBitmap::new(w), in either build
InitWith(ws) ==
    /\ req \in ws
    /\ \E bd \in Builds :
       LET n == NewHeight(req, bd)
       IN  /\ height = n.height
           /\ branches = IF n.out = "ok" THEN RootOnly(n.height) ELSE <<>>
           /\ last = Call("new", FALSE, n.out,
                          IF n.out = "ok" THEN "" ELSE "overflow", "none", U32(0),
                          FALSE)

Constructed == ~(last.op = "new" /\ last.out = "panic")

SmallWidths == {U32(n) : n \in 1..MaxWidth}

Init == InitWith(SmallWidths)

SetOp ==
    /\ Constructed
    /\ \E idx \in Indexes(height), v \in BOOLEAN :
          \E r \in {Set(branches, height, idx, v)} :
              /\ branches' = r.branches
              /\ last' = Call("set", v, r.out, r.why, "unit", U32(0),
                               r.branches # branches)
    /\ UNCHANGED <<req, height>>

GetOp ==
    /\ Constructed
    /\ \E idx \in Indexes(height) :
          \E r \in {Get(branches, height, idx)} :
              last' = Call("get", FALSE, r.out, r.why, r.ret, U32(0), FALSE)
    /\ UNCHANGED <<req, height, branches>>

\* clear written as *self = Self::new(self.width()): the height is computed
\* again from the width, and new adds one
ClearOpRebuild ==
    /\ Constructed
    /\ height' = height + 1
    /\ branches' = RootOnly(height + 1)
    /\ last' = Call("clear", FALSE, "ok", "", "unit", U32(0), TRUE)
    /\ UNCHANGED req

\* clear that leaves the table as it is
ClearOpMut ==
    /\ Constructed
    /\ last' = Call("clear", FALSE, "ok", "", "unit", U32(0), FALSE)
    /\ UNCHANGED <<req, height, branches>>

ClearOp ==
    /\ Constructed
    /\ branches' = RootOnly(height)
    /\ last' = Call("clear", FALSE, "ok", "", "unit", U32(0),
                    branches # RootOnly(height))
    /\ UNCHANGED <<req, height>>

WidthOp ==
    /\ Constructed
    /\ \E bd \in Builds :
       LET r == Width(height, bd)
       IN  last' = Call("width", FALSE, r.out,
                        IF r.out = "ok" THEN "" ELSE "overflow", "none", r.val,
                        FALSE)
    /\ UNCHANGED <<req, height, branches>>

Next == SetOp \/ GetOp \/ ClearOp \/ WidthOp

Spec == Init /\ [][Next]_vars

\* ------------------------------------------------- the width specification
\* new(w) for w around every power of two of the u32 range, then width().
Boundary == UNION {{Dec(Pow2U32(k)), Pow2U32(k), Inc(Pow2U32(k))} : k \in 1..31}
WidthInputs == {U32(n) : n \in 0..MaxSmall} \cup Boundary \cup {U32Max}

InitWidth == InitWith(WidthInputs)

NextWidth == WidthOp

SpecWidth == InitWidth /\ [][NextWidth]_vars

\* --------------------------------------------------------------- helpers
\* every coordinate of idx is in [0, width()), width() = 1 << h
InRange(idx, h) == idx.x < 2 ^ h /\ idx.y < 2 ^ h /\ idx.z < 2 ^ h

BoolStr(v) == IF v THEN "true" ELSE "false"

\* the far corners of the domain [0, 1 << h)^3
Corners(h) ==
    LET m == 2 ^ h - 1
    IN  {Index(m, m, m), Index(m, 0, 0), Index(0, m, 0), Index(0, 0, m)}

\* the indexes at which get is observed: the in-range indexes handed to
\* set, and the corners of the domain
Probes(h) == {p \in Indexes(h) : InRange(p, h)} \cup Corners(h)

\* every index of the domain
AllPoints(h) ==
    {Index(x, y, z) : x \in 0..(2 ^ h - 1), y \in 0..(2 ^ h - 1), z \in 0..(2 ^ h - 1)}

GetsTrue(b, h, idx) == Get(b, h, idx) = [out |-> "ok", why |-> "", ret |-> "true"]
GetsFalse(b, h, idx) == Get(b, h, idx) = [out |-> "ok", why |-> "", ret |-> "false"]

\* the in-range indexes handed to set and get
InIdx(h) == {p \in Indexes(h) : InRange(p, h)}
OutIdx(h) == {p \in Indexes(h) : ~InRange(p, h)}

\* The table is what new built, or what the last call that changed it left.
\* The table changes in no other step, so every table the bitmap can hold is
\* the table of a state that satisfies Settled.
Settled == last.op = "new" \/ ((last.op = "set" \/ last.op = "clear") /\ last.changed)

\* ------------------------------------------------------------------- C1
FreshAllFalse ==
    last.op = "new" => \A o \in Probes(height) : GetsFalse(branches, height, o)

\* C1: on a bitmap built by new, get returns false at every index; on every
\* table the bitmap can hold, every set(idx, v) with idx in range makes get(idx) return v
\* and leaves the result of get at every other index as it was.  By induction
\* over the calls, get returns the value of the most recent set on that index.
RoundTrip ==
    /\ FreshAllFalse
    /\ Settled =>
       \A ps \in {Probes(height)} :
       \A g0 \in {[o \in ps |-> Get(branches, height, o)]} :
       \A idx \in InIdx(height), v \in BOOLEAN :
       \A r \in {Set(branches, height, idx, v)} :
          /\ r.out = "ok"
          /\ \A o \in ps :
                Get(r.branches, height, o)
                   = IF o = idx THEN [out |-> "ok", why |-> "", ret |-> BoolStr(v)]
                     ELSE g0[o]

\* a set(idx, false) has changed the table and another index is still set
RoundTripWitness ==
    /\ last.op = "set" /\ last.out = "ok" /\ last.changed /\ ~last.val
    /\ \E o \in Probes(height) : GetsTrue(branches, height, o)
    /\ \E o \in InIdx(height) : GetsFalse(branches, height, o)

\* ------------------------------------------------------------------- C2
\* the key of the child of branch k selected by bit
ChildKey(k, bit) ==
    [base |-> [x |-> k.base.x + bit.x * 2 ^ (k.height - 1),
               y |-> k.base.y + bit.y * 2 ^ (k.height - 1),
               z |-> k.base.z + bit.z * 2 ^ (k.height - 1)],
     height |-> k.height - 1]

Bits3 == {Index(x, y, z) : x \in 0..1, y \in 0..1, z \in 0..1}

\* the table entries reachable from k by following Branch markers
RECURSIVE ReachFrom(_, _)
ReachFrom(b, k) ==
    IF k \notin DOMAIN b THEN {}
    ELSE {k} \cup UNION {ReachFrom(b, ChildKey(k, bit)) :
                            bit \in {bt \in Bits3 : Child(b[k], bt) = "Branch"}}

Reachable == ReachFrom(branches, Root(height))

AllEqual(br) == br = Uniform("False") \/ br = Uniform("True")

\* C2 as stated: no reachable branch, the root included, has 8 equal
\* terminal children.
NoUniformBranch == \A k \in Reachable : ~AllEqual(branches[k])

\* C2, amended: no reachable branch other than the root has 8 equal terminal
\* children.
NoUniformBranchBelowRoot ==
    \A k \in Reachable \ {Root(height)} : ~AllEqual(branches[k])

\* a set(idx, true) has completed the 8 points of a height-1 branch, which
\* was replaced by True in its parent, while another branch below the root is
\* still stored
CompressedWitness ==
    /\ last.op = "set" /\ last.out = "ok" /\ last.changed /\ last.val
    /\ \E k \in Reachable : k.height >= 2 /\ \E bt \in Bits3 : Child(branches[k], bt) = "True"
    /\ \E k \in Reachable : k.height < height

\* ------------------------------------------------------------------- C3
\* C3: after clear, get returns false at every index of [0, width())^3.
ClearedAllFalse ==
    last.op = "clear" => \A o \in AllPoints(height) : GetsFalse(branches, height, o)

\* a clear that discarded stored points
ClearedWitness == last.op = "clear" /\ last.changed

\* ------------------------------------------------------------------- C4
IsPow2(u) == \E k \in 0..(BITS - 1) : u = Pow2U32(k)

\* C4: for every u32 w, new(w) builds a bitmap whose width() is a power of
\* two and is at least w.
WidthLaw ==
    last.op = "width" =>
        last.out = "ok" /\ IsPow2(last.wret) /\ Leq(req, last.wret)

\* ------------------------------------------------------------------- C5
\* ceil(log2(u)) for u >= 1; 32 when u > 2^31
CeilLog2(u) ==
    CHOOSE k \in 0..BITS :
        /\ k = BITS \/ Leq(u, Pow2U32(k))
        /\ \A j \in 0..(k - 1) : ~Leq(u, Pow2U32(j))

\* C5: new(w) sets height = ceil(log2(w)), and width() is 2^height, the
\* smallest power of two that is at least w (new(5) gives width() = 8).
HeightLaw ==
    (Constructed /\ Leq(U32(1), req) /\ Leq(req, Pow2U32(BITS - 1))) =>
        /\ height = CeilLog2(req)
        /\ last.op = "width" =>
              last.out = "ok" /\ last.wret = Pow2U32(CeilLog2(req))

\* ------------------------------------------------------------------- C6
\* C6: new(1) builds a bitmap of height 0 whose root is a terminal, never a
\* branch, in every reachable state, and get(0,0,0) returns what set(0,0,0)
\* stored.
WidthOneIsLeaf ==
    req = U32(1) =>
        /\ height = 0
        /\ Root(height) \notin DOMAIN branches
        /\ \A v \in BOOLEAN :
              Get(Set(branches, height, Origin, v).branches, height, Origin).ret
                 = BoolStr(v)

\* ------------------------------------------------------------------- C7
\* C7: on every table the bitmap can hold, for every in-range idx and every v, a second
\* set(idx, v) right after set(idx, v) leaves the table (every entry, hence
\* the number of entries and every result of get) as the first call left it.
SetTwiceSame ==
    Settled =>
    \A idx \in InIdx(height), v \in BOOLEAN :
        LET r1 == Set(branches, height, idx, v)
            r2 == Set(r1.branches, height, idx, v)
        IN  /\ r2.out = "ok"
            /\ r2.branches = r1.branches
            /\ Cardinality(DOMAIN r2.branches) = Cardinality(DOMAIN r1.branches)

\* a set(idx, true) found the bit already set, below the root, and changed
\* nothing
SetTwiceWitness ==
    /\ last.op = "set" /\ last.out = "ok" /\ last.val /\ ~last.changed
    /\ Cardinality(DOMAIN branches) >= 2

\* ------------------------------------------------------------------- C8
\* C8 as stated: set returns true when it changed the stored value and false
\* when it did not.
SetReturnsChanged ==
    (last.op = "set" /\ last.out = "ok") => last.ret = BoolStr(last.changed)

\* C8, amended: set returns nothing; the table changes exactly when get(idx)
\* before the call differed from the value handed to set.
SetChangesIffDiffers ==
    /\ last.op = "set" => last.ret = "unit"
    /\ Settled =>
       \A idx \in InIdx(height), v \in BOOLEAN :
          (Set(branches, height, idx, v).branches # branches)
             <=> (Get(branches, height, idx).ret # BoolStr(v))

\* a set(idx, true) that changed the table, and a state in which some set
\* would change nothing
SetChangesWitness ==
    /\ last.op = "set" /\ last.out = "ok" /\ last.val /\ last.changed
    /\ last.ret = "unit"
    /\ \E idx \in InIdx(height) : Set(branches, height, idx, TRUE).branches = branches

\* ------------------------------------------------------------------- C9
\* C9: a get or set at an index with a coordinate >= width() ends in a panic
\* (the lookup of the index's branch key in the table fails) and leaves the
\* table as it was; the index is never taken for another one.
OutOfRangePanics ==
    /\ Settled =>
       \A idx \in OutIdx(height) :
          /\ Get(branches, height, idx).out = "panic"
          /\ \A v \in BOOLEAN :
                LET r == Set(branches, height, idx, v)
                IN  r.out = "panic" /\ r.branches = branches
    /\ last.out = "panic" => ~last.changed

\* a set at an out-of-range index has panicked on a bitmap that stores points
OutOfRangeWitness ==
    /\ last.op = "set" /\ last.out = "panic" /\ last.why = "lookup"
    /\ \E o \in InIdx(height) : GetsTrue(branches, height, o)

\* ------------------------------------------------------------------ C10
\* the indexes at which get returns true
TrueSet(b, h) == {p \in InIdx(h) : GetsTrue(b, h, p)}

\* the marker of the region of height h at base: False when no point of it
\* is in S, True when all 8^h are, Branch otherwise
NodeOf(S, base, h) ==
    LET n == Cardinality({p \in S : BranchAt(p, h).base = base})
    IN  IF n = 0 THEN "False" ELSE IF n = 8 ^ h THEN "True" ELSE "Branch"

\* the one table that stores the set S of points at height H: the root, and
\* a branch for every mixed region below it
CanonKeys(S, H) ==
    {Root(H)} \cup {k \in {BranchAt(p, h) : p \in S, h \in 1..(H - 1)} :
                       NodeOf(S, k.base, k.height) = "Branch"}

Canon(S, H) ==
    [k \in CanonKeys(S, H) |->
        [children |-> [z \in 0..1 |-> [y \in 0..1 |-> [x \in 0..1 |->
            NodeOf(S, ChildKey(k, Index(x, y, z)).base, k.height - 1)]]]]]

\* C10: the table is a function of the set of points that are set: it is
\* Canon of that set, whatever calls led to it; when no point is set it is
\* the table of a fresh bitmap.
TableIsCanonical ==
    Settled =>
        /\ branches = Canon(TrueSet(branches, height), height)
        /\ \A o \in Corners(height) \ InIdx(height) : GetsFalse(branches, height, o)
        /\ TrueSet(branches, height) = {} => branches = RootOnly(height)

\* a set(idx, false) removed the last point of a bitmap of height >= 2 and
\* left the table of a fresh bitmap
CanonicalWitness ==
    /\ height >= 2
    /\ last.op = "set" /\ last.out = "ok" /\ ~last.val /\ last.changed
    /\ branches = RootOnly(height)

\* ------------------------------------------------------------------ C11
\* C11: no call changes height; width() returns 1 << height, the value it
\* had right after new, after any sequence of set, get and clear.
HeightFixed ==
    [][/\ height' = height
       /\ last'.op = "width" =>
             last'.out = "ok" /\ last'.wret = Pow2U32(height)]_vars

\* width() has been called on a bitmap of height 3 that stores branches
\* below its root
HeightFixedWitness ==
    /\ last.op = "width" /\ last.out = "ok" /\ last.wret = Pow2U32(height)
    /\ height = NewHeight(req, "release").height
    /\ height = 3 /\ Cardinality(DOMAIN branches) >= 3

\* ------------------------------------------------------------------ C12
\* the node stored for a bool, written out for the properties
Terminal(v) == IF v THEN "True" ELSE "False"

\* the 7 children of the branch on idx's path at level l that idx does not
\* select are all st
OthersAre(P, idx, st, l) ==
    /\ BranchAt(idx, l) \in DOMAIN P
    /\ \A bit \in Bits3 \ {Bit(idx, l - 1)} : Child(P[BranchAt(idx, l)], bit) = st

\* the lowest level below lim at which the pass meets a branch whose children
\* are not all st, and lim when there is none
StopLevel(P, idx, st, lim) ==
    LET mixed == {l \in 1..(lim - 1) : ~OthersAre(P, idx, st, l)}
    IN  IF mixed = {} THEN lim ELSE CHOOSE l \in mixed : \A m \in mixed : l <= m

\* F is P with every branch of idx's path below the stop level replaced by
\* the terminal st in its parent, and nothing above the stop level touched
CollapseLaw(P, F, idx, st, h, lim) ==
    LET s == StopLevel(P, idx, st, lim)
    IN  /\ \A l \in 1..(s - 1) : BranchAt(idx, l) \notin DOMAIN F
        /\ s <= h =>
              /\ BranchAt(idx, s) \in DOMAIN F
              /\ \A bit \in Bits3 :
                    Child(F[BranchAt(idx, s)], bit) =
                        IF s > 1 /\ bit = Bit(idx, s - 1) THEN st
                        ELSE Child(P[BranchAt(idx, s)], bit)
        /\ \A l \in (s + 1)..h :
              BranchAt(idx, l) \in DOMAIN F /\ F[BranchAt(idx, l)] = P[BranchAt(idx, l)]

\* set is its descent followed, when the leaf was written, by compress;
\* compress takes the table P left by the descent to one that obeys Law
SetCollapses(lim) ==
    Settled =>
        \A idx \in InIdx(height), v \in BOOLEAN :
            \A d \in {Descend(branches, idx, FromBool(v), height)} :
                /\ d.out = "ok"
                /\ Set(branches, height, idx, v) =
                       IF d.wrote THEN Compress(d.branches, height, idx, FromBool(v))
                       ELSE [out |-> d.out, why |-> d.why, branches |-> d.branches]
                /\ d.wrote =>
                      CollapseLaw(d.branches,
                                  Compress(d.branches, height, idx, FromBool(v)).branches,
                                  idx, Terminal(v), height, lim)

\* C12 as stated: the pass goes up through every branch of the path whose
\* children all equal v, the root included, which it would replace as well.
CompressCollapsesAll == SetCollapses(height + 1)

\* C12, amended: compression replaces each branch of idx's path whose 8
\* children all equal v by the terminal v in its parent, from the lowest
\* level up, and stops at the first ancestor whose children are not all v or
\* at the root, which it never replaces; every ancestor above the stopping
\* point is left unchanged.
CompressStopsAtFirstMixed == SetCollapses(height)

\* a set(idx, false) collapsed the lowest branch of its path and stopped at
\* the level-2 branch, which still holds another branch, below a root of
\* height 3
CompressStopsWitness ==
    /\ height = 3 /\ last.op = "set" /\ ~last.val /\ last.changed
    /\ Cardinality(DOMAIN branches) = 3
    /\ \E k \in DOMAIN branches : k.height = 2 /\ branches[k] # Uniform("False")

\* ------------------------------------------------------------------ C13
\* the branch keyed k lies on the root-to-leaf path of idx
OnPath(k, idx) == k = BranchAt(idx, k.height)

\* C13: set(idx, v) leaves every stored branch whose region does not contain
\* idx as it was (none is created, changed or removed), and in every branch
\* of idx's path that is stored before and after the call, every child slot
\* other than the one idx selects is as it was.
SetTouchesOnlyPath ==
    Settled =>
        \A idx \in InIdx(height), v \in BOOLEAN :
            \A F \in {Set(branches, height, idx, v).branches} :
                \A k \in (DOMAIN branches) \cup (DOMAIN F) :
                    IF OnPath(k, idx)
                    THEN (k \in DOMAIN branches /\ k \in DOMAIN F) =>
                            \A bit \in Bits3 \ {Bit(idx, k.height - 1)} :
                                Child(F[k], bit) = Child(branches[k], bit)
                    ELSE /\ k \in DOMAIN branches
                         /\ k \in DOMAIN F
                         /\ F[k] = branches[k]

\* a set changed the table while two branches of height 1 are stored: one of
\* them is off the path of the index that was set
SetTouchesOnlyPathWitness ==
    /\ last.op = "set" /\ last.val /\ last.changed /\ last.out = "ok"
    /\ Cardinality({k \in DOMAIN branches : k.height = 1}) = 2
    /\ \A k \in DOMAIN branches : k.height = 1 => branches[k] # Uniform("False")

\* ------------------------------------------------------------------ C14
\* C14: no call has ended in the panic 'branch node at height zero', no get
\* or set at an in-range index would, and no child of a stored branch of
\* height 1 is marked Branch (no branch is stored at height 0).
NoBranchAtHeightZero ==
    /\ last.why # "unreachable"
    /\ \A k \in DOMAIN branches :
          /\ k.height >= 1
          /\ k.height = 1 => \A bit \in Bits3 : Child(branches[k], bit) # "Branch"
    /\ Settled =>
          /\ \A o \in Probes(height) : Get(branches, height, o).why # "unreachable"
          /\ \A idx \in InIdx(height), v \in BOOLEAN :
                Set(branches, height, idx, v).why # "unreachable"

\* below a root of height 2 or more, reached through a Branch marker, a
\* branch of height 1 is stored that holds both a True and a False child
BottomBranchWitness ==
    /\ height >= 2 /\ last.op = "get" /\ last.out = "ok" /\ last.ret = "true"
    /\ \E k \in DOMAIN branches :
          /\ k.height = 1
          /\ \E b1, b2 \in Bits3 :
                Child(branches[k], b1) = "True" /\ Child(branches[k], b2) = "False"

\* ------------------------------------------------------------------ C15
\* The marker of the region keyed reg (a region below the root) in table t,
\* found by going down from the branch at height ch: the slot of its parent
\* when the parent is stored, and otherwise the terminal that covers it.
RECURSIVE SlotFrom(_, _, _)
SlotFrom(t, reg, ch) ==
    LET c == Child(t[BranchAt(reg.base, ch)], Bit(reg.base, ch - 1))
    IN  IF ch - 1 = reg.height \/ c # "Branch" THEN c
        ELSE SlotFrom(t, reg, ch - 1)

\* the regions below the root that hold a probed index, the points included
Regions(h) == {BranchAt(p, l) : p \in Probes(h), l \in 0..(h - 1)}

\* C15: across a set(idx, v), a slot goes from a terminal to Branch only when
\* v differs from that terminal and the slot covers more than one point; it
\* goes from Branch to a terminal only when that terminal is v and compress
\* found the 8 children of its branch, and of every branch of the path below
\* it, equal to v; no slot that covers more than one point goes from False to
\* True or from True to False.
SlotTransitions ==
    Settled =>
        \A regs \in {Regions(height)}, ins \in {InIdx(height)} :
            \A olds \in {[reg \in regs |-> SlotFrom(branches, reg, height)]} :
                \A idx \in ins, v \in BOOLEAN :
                    \A F \in {Set(branches, height, idx, v).branches} :
                        \A reg \in regs :
                            LET old == olds[reg]
                                new == IF F = branches THEN old
                                       ELSE SlotFrom(F, reg, height)
                            IN  /\ (old # "Branch" /\ new = "Branch") =>
                                      old # Terminal(v) /\ reg.height >= 1
                                /\ (old = "Branch" /\ new # "Branch") =>
                                      /\ new = Terminal(v)
                                      /\ reg = BranchAt(idx, reg.height)
                                      /\ \A P \in {Descend(branches, idx, FromBool(v),
                                                          height).branches} :
                                            \A l \in 1..reg.height :
                                                OthersAre(P, idx, Terminal(v), l)
                                /\ (reg.height >= 1 /\ old # "Branch" /\ new # "Branch") =>
                                      old = new

\* a set(idx, false) has turned the Branch slots of its path back into the
\* terminal False, at two levels: only the root is left of a table of height 3
SlotTransitionsWitness ==
    /\ height = 3 /\ last.op = "set" /\ ~last.val /\ last.changed
    /\ branches = RootOnly(height)

\* ------------------------------------------------------------------ C16
\* C16: at every in-range index get returns after at most height passes of
\* its loop; set returns after at most 2 * height - 1 passes of its loop and
\* at most height - 1 passes of the loop of compress, fewer than 3 * height
\* in all.  The counted loops give what get and set give.
LoopsBounded ==
    Settled =>
        /\ \A o \in Probes(height) :
              \A g \in {GetSteps(branches, o, height)} :
                  /\ g.r = Get(branches, height, o)
                  /\ g.r.out = "ok"
                  /\ g.n <= height
        /\ \A idx \in InIdx(height), v \in BOOLEAN :
              \A s \in {SetSteps(branches, idx, FromBool(v), height, height)} :
                  /\ s.r = Set(branches, height, idx, v)
                  /\ s.r.out = "ok"
                  /\ s.n <= 2 * height - 1
                  /\ s.c <= height - 1
                  /\ s.n + s.c < 3 * height

\* a bitmap of height 3 that stores branches at all 3 levels: a get goes
\* through the 3 levels, a set that expands a slot of height 1 takes 4 passes,
\* and a set that empties the bitmap takes 3 passes and 2 passes of compress
LoopsBoundedWitness ==
    /\ height = 3 /\ Settled
    /\ \E o \in Probes(height) : GetSteps(branches, o, height).n = height
    /\ \E idx \in InIdx(height), v \in BOOLEAN :
          SetSteps(branches, idx, FromBool(v), height, height).n = 2 * height - 2
    /\ \E idx \in InIdx(height), v \in BOOLEAN :
          SetSteps(branches, idx, FromBool(v), height, height).c = height - 1

\* ------------------------------------------------------------------ C17
\* C17: a child slot of a stored branch is marked Branch exactly when the
\* table holds the entry keyed by that child's base one level down; every
\* entry is reached from the root through Branch markers; and no get or set
\* at an in-range index fails a table lookup.
TableMatchesMarkers ==
    /\ \A k \in DOMAIN branches, bit \in Bits3 :
          Child(branches[k], bit) = "Branch" <=> ChildKey(k, bit) \in DOMAIN branches
    /\ DOMAIN branches = Reachable
    /\ Settled =>
          /\ \A o \in Probes(height) : Get(branches, height, o).why # "lookup"
          /\ \A idx \in InIdx(height), v \in BOOLEAN :
                Set(branches, height, idx, v).why # "lookup"

\* a set(idx, true) left 4 entries in a table of height 3: the root, a branch
\* of height 2 and two branches of height 1, each under a Branch marker
TableMatchesWitness ==
    /\ height = 3 /\ last.op = "set" /\ last.val /\ last.changed
    /\ Cardinality(DOMAIN branches) = 4
    /\ \E k \in DOMAIN branches :
          /\ k.height = 2
          /\ Cardinality({bit \in Bits3 : Child(branches[k], bit) = "Branch"}) = 2

\* ------------------------------------------------------------------ C18
\* C18: the table always holds the entry keyed by base (0, 0, 0) at the
\* bitmap's height, and no set at an in-range index takes it away.
RootAlwaysStored ==
    /\ Root(height) \in DOMAIN branches
    /\ Settled =>
          \A idx \in InIdx(height), v \in BOOLEAN :
              Root(height) \in DOMAIN Set(branches, height, idx, v).branches

\* a set(idx, true) made the 8 children of the root all True: the root is
\* still stored, and it is the only entry
RootAlwaysStoredWitness ==
    /\ last.op = "set" /\ last.val /\ last.changed /\ last.out = "ok"
    /\ DOMAIN branches = {Root(height)}
    /\ branches[Root(height)] = Uniform("True")

====
